---- MODULE Spec2Model ----
(***************************************************************************)
(* A model of pants-docker-generator: the Dockerfile instruction           *)
(* dataclasses and their render() methods, Stage, Dockerfile, the fluent   *)
(* DockerfileBuilder and the sls_dockerfile preset.                        *)
(*                                                                         *)
(* Text.  A Python str is modelled as a sequence of tokens.  The newline   *)
(* and the backslash are tokens of their own (NL, BS); every other token   *)
(* is a run of characters that holds neither.  str.join, str.endswith and  *)
(* the f-strings of the source are computed on these sequences.            *)
(*                                                                         *)
(* Optional[T].  None is the empty tuple <<>> and a present value v is     *)
(* the one-element tuple <<v>>, so that None and the empty string (the     *)
(* empty token sequence) are different values, as in Python.               *)
(***************************************************************************)
EXTENDS Integers, Sequences, FiniteSets, TLC

VARIABLES
    stages,              \* DockerfileBuilder._stages
    current_from,        \* DockerfileBuilder._current_from
    current_directives,  \* DockerfileBuilder._current_directives
    calls,               \* the calls made on the builder so far, in order
    docs,                \* the Dockerfile objects build() has returned, in order
    raised,              \* the exception the last call raised, or NoError
    arg,                 \* the input a pure function is applied to
    ret                  \* what that function returned, or NotCalled

vars == <<stages, current_from, current_directives, calls, docs, raised, arg, ret>>

builderVars == <<stages, current_from, current_directives, calls, docs, raised>>

(***************************************************************************)
(* Bounds of the model.                                                    *)
(***************************************************************************)
\* The number of calls made on one builder.
MaxCalls == 4
\* The number of those calls that append an instruction.
MaxAppends == 2
\* The number of stages of a Dockerfile handed to Dockerfile.render.
MaxStages == 2
\* The number of directives of a stage handed to Dockerfile.render.
MaxDirectives == 2
\* The number of entries of a labels dict handed to Label.render.
MaxLabels == 3
\* Deny patterns, and allow patterns, of a DockerignoreConfig.
MaxPatterns == 2
\* The number of calls made on a builder that is only given from_, run and
\* build calls.
MaxRebuildCalls == 5

(***************************************************************************)
(* Text                                                                    *)
(***************************************************************************)
NL == "\n"
BS == "\\"

\* The str of one token.
S(tok) == <<tok>>

\* Optional values.
None == <<>>
Some(v) == <<v>>

\* Python truthiness of an Optional[str]: None and "" are falsy.
TruthyStr(o) == o # None /\ o[1] # <<>>

\* Python truthiness of an Optional[int]: None and 0 are falsy.
TruthyInt(o) == o # None /\ o[1] # 0

\* sep.join(parts), parts a sequence of strs.
RECURSIVE Join(_, _)
Join(parts, sep) ==
    IF parts = <<>> THEN <<>>
    ELSE IF Len(parts) = 1 THEN parts[1]
    ELSE parts[1] \o sep \o Join(Tail(parts), sep)

\* s.endswith("\n")
EndsWithNL(s) == s # <<>> /\ s[Len(s)] = NL

\* s.count(tok) for a one-token needle.
Count(s, tok) == Cardinality({i \in DOMAIN s : s[i] = tok})

Digit(n) == <<"0", "1", "2", "3", "4", "5", "6", "7", "8", "9">>[n + 1]

\* str(n) of an int, as the f-strings format it.
RECURSIVE NatStr(_)
NatStr(n) == IF n < 10 THEN S(Digit(n)) ELSE NatStr(n \div 10) \o S(Digit(n % 10))

IntStr(n) == IF n < 0 THEN S("-") \o NatStr(0 - n) ELSE NatStr(n)

\* '"a", "b"': ", ".join(f'"{a}"' for a in args)
RECURSIVE QuotedList(_)
QuotedList(args) ==
    IF args = <<>> THEN <<>>
    ELSE S("\"") \o args[1] \o S("\"")
         \o (IF Len(args) = 1 THEN <<>> ELSE S(", ") \o QuotedList(Tail(args)))

(***************************************************************************)
(* The instruction dataclasses (_directives.py)                            *)
(***************************************************************************)
Comment(text) == [kind |-> "Comment", text |-> text]
BlankLine == [kind |-> "BlankLine"]
From(image, alias, platform) ==
    [kind |-> "From", image |-> image, alias |-> alias, platform |-> platform]
Run(command) == [kind |-> "Run", command |-> command]
Copy(src, dst, from_stage, chown) ==
    [kind |-> "Copy", src |-> src, dst |-> dst, from_stage |-> from_stage, chown |-> chown]
Add(src, dst, chown) == [kind |-> "Add", src |-> src, dst |-> dst, chown |-> chown]
Workdir(path) == [kind |-> "Workdir", path |-> path]
User(user, group) == [kind |-> "User", user |-> user, group |-> group]
Expose(port, protocol) == [kind |-> "Expose", port |-> port, protocol |-> protocol]
Entrypoint(args) == [kind |-> "Entrypoint", args |-> args]
Cmd(args) == [kind |-> "Cmd", args |-> args]
Arg(name, default) == [kind |-> "Arg", name |-> name, default |-> default]
Env(key, value) == [kind |-> "Env", key |-> key, value |-> value]
\* labels: a dict, modelled as the sequence of its <<key, value>> items in
\* insertion order, the keys pairwise different.
Label(labels) == [kind |-> "Label", labels |-> labels]
Volume(paths) == [kind |-> "Volume", paths |-> paths]
Shell(args) == [kind |-> "Shell", args |-> args]
HealthCheck(command, interval_seconds, timeout_seconds, start_period_seconds, retries) ==
    [kind |-> "HealthCheck", command |-> command,
     interval_seconds |-> interval_seconds, timeout_seconds |-> timeout_seconds,
     start_period_seconds |-> start_period_seconds, retries |-> retries]
HealthCheckNone == [kind |-> "HealthCheckNone"]

Comment_render(d) == S("# ") \o d.text

BlankLine_render(d) == <<>>

\* A render that appends the alias suffix before the image.
From_render_AliasBeforeImage(d) ==
    LET p0 == <<S("FROM")>>
        p1 == IF TruthyStr(d.platform)
              THEN Append(p0, S("--platform=") \o d.platform[1]) ELSE p0
        p2 == IF TruthyStr(d.alias) THEN Append(p1, S("AS ") \o d.alias[1]) ELSE p1
        p3 == Append(p2, d.image)
    IN  Join(p3, S(" "))

From_render(d) ==
    LET p0 == <<S("FROM")>>
        p1 == IF TruthyStr(d.platform)
              THEN Append(p0, S("--platform=") \o d.platform[1]) ELSE p0
        p2 == Append(p1, d.image)
        p3 == IF TruthyStr(d.alias) THEN Append(p2, S("AS ") \o d.alias[1]) ELSE p2
    IN  Join(p3, S(" "))

Run_render(d) == S("RUN ") \o d.command

Copy_render(d) ==
    LET p0 == <<S("COPY")>>
        p1 == IF TruthyStr(d.from_stage)
              THEN Append(p0, S("--from=") \o d.from_stage[1]) ELSE p0
        p2 == IF TruthyStr(d.chown) THEN Append(p1, S("--chown=") \o d.chown[1]) ELSE p1
    IN  Join(p2 \o <<d.src, d.dst>>, S(" "))

Add_render(d) ==
    LET p0 == <<S("ADD")>>
        p1 == IF TruthyStr(d.chown) THEN Append(p0, S("--chown=") \o d.chown[1]) ELSE p0
    IN  Join(p1 \o <<d.src, d.dst>>, S(" "))

Workdir_render(d) == S("WORKDIR ") \o d.path

User_render(d) ==
    IF TruthyStr(d.group)
    THEN S("USER ") \o d.user \o S(":") \o d.group[1]
    ELSE S("USER ") \o d.user

Expose_render(d) ==
    IF TruthyStr(d.protocol)
    THEN S("EXPOSE ") \o IntStr(d.port) \o S("/") \o d.protocol[1]
    ELSE S("EXPOSE ") \o IntStr(d.port)

Entrypoint_render(d) == S("ENTRYPOINT [") \o QuotedList(d.args) \o S("]")

Cmd_render(d) == S("CMD [") \o QuotedList(d.args) \o S("]")

Arg_render(d) ==
    IF d.default # None
    THEN S("ARG ") \o d.name \o S("=") \o d.default[1]
    ELSE S("ARG ") \o d.name

Env_render(d) == S("ENV ") \o d.key \o S("=\"") \o d.value \o S("\"")

\* A loop that gives the last line the " \" suffix too.
RECURSIVE LabelLines_ContinuesLastLine(_, _)
LabelLines_ContinuesLastLine(items, i) ==
    IF i > Len(items) THEN <<>>
    ELSE <<S("      ") \o items[i][1] \o S("=\"") \o items[i][2] \o S("\"") \o <<" ", BS>>>>
         \o LabelLines_ContinuesLastLine(items, i + 1)

\* The lines Label.render appends for items[i..], each but the last with " \".
RECURSIVE LabelLines(_, _)
LabelLines(items, i) ==
    IF i > Len(items) THEN <<>>
    ELSE LET suffix == IF i - 1 < Len(items) - 1 THEN <<" ", BS>> ELSE <<>>
         IN  <<S("      ") \o items[i][1] \o S("=\"") \o items[i][2] \o S("\"") \o suffix>>
             \o LabelLines(items, i + 1)

Label_render(d) ==
    IF d.labels = <<>> THEN <<>>
    ELSE IF Len(d.labels) = 1
    THEN S("LABEL ") \o d.labels[1][1] \o S("=\"") \o d.labels[1][2] \o S("\"")
    ELSE Join(<< <<"LABEL ", BS>> >> \o LabelLines(d.labels, 1), S(NL))

Volume_render(d) ==
    IF Len(d.paths) = 1 THEN S("VOLUME ") \o d.paths[1]
    ELSE S("VOLUME [") \o QuotedList(d.paths) \o S("]")

Shell_render(d) == S("SHELL [") \o QuotedList(d.args) \o S("]")

HealthCheck_render(d) ==
    S("HEALTHCHECK") \o S(" --interval=") \o IntStr(d.interval_seconds) \o S("s ")
    \o S("--timeout=") \o IntStr(d.timeout_seconds) \o S("s ")
    \o S("--start-period=") \o IntStr(d.start_period_seconds) \o S("s ")
    \o S("--retries=") \o IntStr(d.retries) \o <<" ", BS, NL>>
    \o S("  CMD ") \o d.command

HealthCheckNone_render(d) == S("HEALTHCHECK NONE")

\* d.render(), dispatched on the class of d.
render(d) ==
    CASE d.kind = "Comment" -> Comment_render(d)
      [] d.kind = "BlankLine" -> BlankLine_render(d)
      [] d.kind = "From" -> From_render(d)
      [] d.kind = "Run" -> Run_render(d)
      [] d.kind = "Copy" -> Copy_render(d)
      [] d.kind = "Add" -> Add_render(d)
      [] d.kind = "Workdir" -> Workdir_render(d)
      [] d.kind = "User" -> User_render(d)
      [] d.kind = "Expose" -> Expose_render(d)
      [] d.kind = "Entrypoint" -> Entrypoint_render(d)
      [] d.kind = "Cmd" -> Cmd_render(d)
      [] d.kind = "Arg" -> Arg_render(d)
      [] d.kind = "Env" -> Env_render(d)
      [] d.kind = "Label" -> Label_render(d)
      [] d.kind = "Volume" -> Volume_render(d)
      [] d.kind = "Shell" -> Shell_render(d)
      [] d.kind = "HealthCheck" -> HealthCheck_render(d)
      [] d.kind = "HealthCheckNone" -> HealthCheckNone_render(d)

(***************************************************************************)
(* Stage (_stage.py) and Dockerfile (_dockerfile.py)                       *)
(***************************************************************************)
Stage(from_directive, directives) ==
    [from_directive |-> from_directive, directives |-> directives]

Stage_alias(s) == s.from_directive.alias

\* A loop that tests `if rendered:` and so leaves out an empty rendering.
RECURSIVE RenderedLines_SkipsEmpty(_, _)
RenderedLines_SkipsEmpty(directives, i) ==
    IF i > Len(directives) THEN <<>>
    ELSE (IF render(directives[i]) # <<>> THEN <<render(directives[i])>> ELSE <<>>)
         \o RenderedLines_SkipsEmpty(directives, i + 1)

\* The renderings Stage.render collects for directives[i..]: render() never
\* returns None, so the test "rendered is not None" keeps every one of them.
RECURSIVE RenderedLines(_, _)
RenderedLines(directives, i) ==
    IF i > Len(directives) THEN <<>>
    ELSE <<render(directives[i])>> \o RenderedLines(directives, i + 1)

Stage_render(s) ==
    Join(<<render(s.from_directive)>> \o RenderedLines(s.directives, 1), S(NL))

\* A Dockerfile object.  stages is the tuple it was constructed with.  same_as
\* names the mutable list object the stages field is one and the same object
\* as: NoList for a tuple, which tuple(...) builds as a fresh copy.
NoList == "none"
BuilderStagesList == "DockerfileBuilder._stages"

Dockerfile(stgs) == [stages |-> stgs, same_as |-> NoList]

\* The stages a Dockerfile holds when the builder's list of stages is stgs.
StagesIn(df, stgs) == IF df.same_as = BuilderStagesList THEN stgs ELSE df.stages

\* The stages a Dockerfile holds in the current state.
Dockerfile_stages(df) == StagesIn(df, stages)

\* A loop that puts the separating "" before the first stage too.
RECURSIVE RenderParts_SeparatorBeforeFirst(_, _)
RenderParts_SeparatorBeforeFirst(stgs, i) ==
    IF i > Len(stgs) THEN <<>>
    ELSE << <<>> >> \o <<Stage_render(stgs[i])>>
         \o RenderParts_SeparatorBeforeFirst(stgs, i + 1)

\* The parts list Dockerfile.render builds for stgs[i..].
RECURSIVE RenderParts(_, _)
RenderParts(stgs, i) ==
    IF i > Len(stgs) THEN <<>>
    ELSE (IF i - 1 > 0 THEN << <<>> >> ELSE <<>>)
         \o <<Stage_render(stgs[i])>> \o RenderParts(stgs, i + 1)

\* "\n".join(parts), before the trailing-newline test.
Dockerfile_joined(stgs) == Join(RenderParts(stgs, 1), S(NL))

Dockerfile_render(stgs) ==
    LET result == Dockerfile_joined(stgs)
    IN  IF ~EndsWithNL(result) THEN result \o S(NL) ELSE result

(***************************************************************************)
(* DockerfileBuilder (_dockerfile.py).  A builder object b is the record   *)
(* of its three fields; every method is an operator from the object (and   *)
(* the arguments) to the object after the call.                            *)
(***************************************************************************)
NoFrom == [kind |-> "None"]

DockerfileBuilder ==
    [stages |-> <<>>, current_from |-> NoFrom, current_directives |-> <<>>]

flush_stage(b) ==
    IF b.current_from # NoFrom
    THEN [stages |-> Append(b.stages, Stage(b.current_from, b.current_directives)),
          current_from |-> NoFrom,
          current_directives |-> <<>>]
    ELSE b

\* A from_ that starts the stage without its alias.
from_ForgetsAlias(b, image, alias, platform) ==
    [flush_stage(b) EXCEPT !.current_from = From(image, None, platform)]

from_(b, image, alias, platform) ==
    [flush_stage(b) EXCEPT !.current_from = From(image, alias, platform)]

\* A list.insert(0, d) in the place of list.append(d).
append_AtFront(b, d) == [b EXCEPT !.current_directives = <<d>> \o @]

\* self._current_directives.append(d)
append(b, d) == [b EXCEPT !.current_directives = Append(@, d)]

run(b, command) == append(b, Run(command))
copy(b, src, dst, from_stage, chown) == append(b, Copy(src, dst, from_stage, chown))
add(b, src, dst, chown) == append(b, Add(src, dst, chown))
workdir(b, path) == append(b, Workdir(path))
user(b, usr, group) == append(b, User(usr, group))
expose(b, port, protocol) == append(b, Expose(port, protocol))
entrypoint(b, args) == append(b, Entrypoint(args))
cmd(b, args) == append(b, Cmd(args))
arg_(b, name, default) == append(b, Arg(name, default))
env(b, key, value) == append(b, Env(key, value))
label(b, labels) == append(b, Label(labels))
volume(b, paths) == append(b, Volume(paths))
shell(b, args) == append(b, Shell(args))
healthcheck(b, command, interval_seconds, timeout_seconds, start_period_seconds, retries) ==
    append(b, HealthCheck(command, interval_seconds, timeout_seconds,
                          start_period_seconds, retries))
healthcheck_none(b) == append(b, HealthCheckNone)
comment(b, text) == append(b, Comment(text))
blank(b) == append(b, BlankLine)
directive(b, d) == append(b, d)

\* What a call leaves behind: the builder after it, the exception it raised
\* and, for build(), the Dockerfile it returned.
NoError == "none"
ValueError == "ValueError"
NoDoc == [stages |-> <<>>, same_as |-> "no Dockerfile"]

\* A build() that tests the pending FROM, not the list of stages.
build_TestsPendingFrom(b) ==
    LET f == flush_stage(b)
    IN  IF b.current_from = NoFrom
        THEN [b |-> f, exc |-> ValueError, doc |-> NoDoc]
        ELSE [b |-> f, exc |-> NoError, doc |-> Dockerfile(f.stages)]

\* A build() that hands out Dockerfile(stages=self._stages): the list itself.
build_NoCopy(b) ==
    LET f == flush_stage(b)
    IN  IF f.stages = <<>>
        THEN [b |-> f, exc |-> ValueError, doc |-> NoDoc]
        ELSE [b |-> f, exc |-> NoError,
              doc |-> [stages |-> f.stages, same_as |-> BuilderStagesList]]

build(b) ==
    LET f == flush_stage(b)
    IN  IF f.stages = <<>>
        THEN [b |-> f, exc |-> ValueError, doc |-> NoDoc]
        ELSE [b |-> f, exc |-> NoError, doc |-> Dockerfile(f.stages)]

(***************************************************************************)
(* The builder as a state machine: one client makes up to MaxCalls calls   *)
(* on one DockerfileBuilder, of any methods in any order, and keeps every  *)
(* Dockerfile that build() returns.                                        *)
(***************************************************************************)
\* Argument values the client draws from.
FromArgs == {<<S("a"), None, None>>, <<S("b"), Some(S("s")), Some(S("p"))>>}
LabelArgs == {<<>>, <<<<S("k1"), S("v1")>>, <<S("k2"), S("v2")>>>>}
DirectiveArgs == {From(S("c"), None, None), Label(<<>>)}

NoArg == [fn |-> "none"]
NotCalled == None

self == [stages |-> stages, current_from |-> current_from,
         current_directives |-> current_directives]

\* A method that returns self.
Returned(b) == [b |-> b, exc |-> NoError, doc |-> NoDoc]

AppendOps == {"run", "copy", "add", "workdir", "user", "expose", "entrypoint", "cmd",
              "arg", "env", "label", "volume", "shell", "healthcheck",
              "healthcheck_none", "comment", "blank", "directive"}

Appends(cs) == Cardinality({i \in DOMAIN cs : cs[i].op \in AppendOps})

Init ==
    /\ stages = DockerfileBuilder.stages
    /\ current_from = DockerfileBuilder.current_from
    /\ current_directives = DockerfileBuilder.current_directives
    /\ calls = <<>>
    /\ docs = <<>>
    /\ raised = NoError
    /\ arg = NoArg
    /\ ret = NotCalled

\* What the call op(a) does when it leaves r behind.
Made(op, a, r) ==
    /\ stages' = r.b.stages
    /\ current_from' = r.b.current_from
    /\ current_directives' = r.b.current_directives
    /\ calls' = Append(calls, [op |-> op, arg |-> a])
    /\ raised' = r.exc
    /\ docs' = IF r.doc # NoDoc THEN Append(docs, r.doc) ELSE docs
    /\ UNCHANGED <<arg, ret>>

\* The call op(a) is made and leaves r behind.
Call(op, a, r) ==
    /\ Len(calls) < MaxCalls
    /\ op \in AppendOps => Appends(calls) < MaxAppends
    /\ Made(op, a, r)

Call_from_ ==
    \E a \in FromArgs :
        Call("from_", From(a[1], a[2], a[3]), Returned(from_(self, a[1], a[2], a[3])))
Call_run == Call("run", Run(S("x")), Returned(run(self, S("x"))))
Call_copy ==
    Call("copy", Copy(S("src"), S("dst"), Some(S("s")), None),
         Returned(copy(self, S("src"), S("dst"), Some(S("s")), None)))
Call_add ==
    Call("add", Add(S("src"), S("dst"), None), Returned(add(self, S("src"), S("dst"), None)))
Call_workdir == Call("workdir", Workdir(S("/app")), Returned(workdir(self, S("/app"))))
Call_user ==
    Call("user", User(S("u"), Some(<<>>)), Returned(user(self, S("u"), Some(<<>>))))
Call_expose == Call("expose", Expose(8080, None), Returned(expose(self, 8080, None)))
Call_entrypoint ==
    Call("entrypoint", Entrypoint(<<S("a"), S("b")>>),
         Returned(entrypoint(self, <<S("a"), S("b")>>)))
Call_cmd == Call("cmd", Cmd(<<S("a")>>), Returned(cmd(self, <<S("a")>>)))
Call_arg == Call("arg", Arg(S("V"), None), Returned(arg_(self, S("V"), None)))
Call_env == Call("env", Env(S("K"), S("v")), Returned(env(self, S("K"), S("v"))))
Call_label == \E l \in LabelArgs : Call("label", Label(l), Returned(label(self, l)))
Call_volume == Call("volume", Volume(<<S("/data")>>), Returned(volume(self, <<S("/data")>>)))
Call_shell == Call("shell", Shell(<<S("sh")>>), Returned(shell(self, <<S("sh")>>)))
Call_healthcheck ==
    Call("healthcheck", HealthCheck(S("check"), 10, 5, 30, 3),
         Returned(healthcheck(self, S("check"), 10, 5, 30, 3)))
Call_healthcheck_none ==
    Call("healthcheck_none", HealthCheckNone, Returned(healthcheck_none(self)))
Call_comment == Call("comment", Comment(S("c")), Returned(comment(self, S("c"))))
Call_blank == Call("blank", BlankLine, Returned(blank(self)))
Call_directive == \E d \in DirectiveArgs : Call("directive", d, Returned(directive(self, d)))
Call_build == Call("build", NoFrom, build(self))

Next ==
    \/ Call_from_
    \/ Call_run
    \/ Call_copy
    \/ Call_add
    \/ Call_workdir
    \/ Call_user
    \/ Call_expose
    \/ Call_entrypoint
    \/ Call_cmd
    \/ Call_arg
    \/ Call_env
    \/ Call_label
    \/ Call_volume
    \/ Call_shell
    \/ Call_healthcheck
    \/ Call_healthcheck_none
    \/ Call_comment
    \/ Call_blank
    \/ Call_directive
    \/ Call_build

Spec == Init /\ [][Next]_vars

(***************************************************************************)
(* The builder given from_, run and build calls only, which leaves room    *)
(* for longer call sequences: a build, an instruction, and builds again.   *)
(***************************************************************************)
Rebuild_from_ ==
    /\ Len(calls) < MaxRebuildCalls
    /\ \E a \in FromArgs :
           Made("from_", From(a[1], a[2], a[3]), Returned(from_(self, a[1], a[2], a[3])))

Rebuild_run ==
    /\ Len(calls) < MaxRebuildCalls
    /\ Made("run", Run(S("x")), Returned(run(self, S("x"))))

Rebuild_build ==
    /\ Len(calls) < MaxRebuildCalls
    /\ Made("build", NoFrom, build(self))

NextRebuild ==
    \/ Rebuild_from_
    \/ Rebuild_run
    \/ Rebuild_build

SpecRebuild == Init /\ [][NextRebuild]_vars

(***************************************************************************)
(* The history of calls, read as the claims read it.                       *)
(***************************************************************************)
LastCall == calls[Len(calls)]

\* The From of every from_ call made, in call order.
RECURSIVE FromCalls(_)
FromCalls(cs) ==
    IF cs = <<>> THEN <<>>
    ELSE (IF cs[1].op = "from_" THEN <<cs[1].arg>> ELSE <<>>) \o FromCalls(Tail(cs))

\* build() has just returned a Dockerfile.
BuildReturned == calls # <<>> /\ LastCall.op = "build" /\ raised = NoError

\* The stages of the Dockerfile the last build() returned.
LastDocStages == Dockerfile_stages(docs[Len(docs)])

NoStage == Stage(NoFrom, <<>>)
Closed(acc, cur) == IF cur = NoStage THEN acc ELSE Append(acc, cur)

\* The stages the calls cs[i..] describe: a from_ call opens a stage, an
\* instruction call made while a stage is open belongs to that stage, and
\* the next from_ call or build() closes it.
RECURSIVE StagesOfCalls(_, _, _, _)
StagesOfCalls(cs, i, acc, cur) ==
    IF i > Len(cs) THEN Closed(acc, cur)
    ELSE IF cs[i].op = "from_"
    THEN StagesOfCalls(cs, i + 1, Closed(acc, cur), Stage(cs[i].arg, <<>>))
    ELSE IF cs[i].op = "build"
    THEN StagesOfCalls(cs, i + 1, Closed(acc, cur), NoStage)
    ELSE IF cur = NoStage
    THEN StagesOfCalls(cs, i + 1, acc, cur)
    ELSE StagesOfCalls(cs, i + 1, acc,
                       Stage(cur.from_directive, Append(cur.directives, cs[i].arg)))

\* The positions in cs of its from_ calls, in order.
FromPositions(cs) == {i \in DOMAIN cs : cs[i].op = "from_"}
NthFromPosition(cs, n) ==
    CHOOSE i \in FromPositions(cs) : Cardinality({j \in FromPositions(cs) : j <= i}) = n

(***************************************************************************)
(* Claims about the builder                                                *)
(***************************************************************************)
\* C1: build() raises ValueError if and only if no from_ call was ever made on
\* the builder, whatever calls came before; no other method ever raises.
C1_BuildFailsIffNoFrom ==
    calls # <<>> =>
        /\ LastCall.op = "build" => (raised = ValueError <=> FromCalls(calls) = <<>>)
        /\ LastCall.op # "build" => raised = NoError

\* C1 witness: build() has raised after instruction calls made without a from_.
C1_Witness ==
    /\ calls # <<>> /\ LastCall.op = "build" /\ raised = ValueError
    /\ Appends(calls) >= 2

\* C1 witness of the other direction: a second build() in a row has succeeded.
C1_WitnessSuccess ==
    /\ Len(calls) >= 3 /\ LastCall.op = "build" /\ calls[Len(calls) - 1].op = "build"
    /\ raised = NoError

\* The part of C2 that the code keeps: a returned Dockerfile has one stage
\* per from_ call made, in from_ call order.
StagesMatchFromCalls ==
    BuildReturned =>
        /\ Len(LastDocStages) = Len(FromCalls(calls))
        /\ \A i \in DOMAIN LastDocStages :
               LastDocStages[i].from_directive = FromCalls(calls)[i]

\* C2: a returned Dockerfile has exactly one stage per from_ call made, in
\* from_ call order, and of two from_ calls made one right after the other the
\* first one's stage has an empty instruction list.
C2_OneStagePerFrom ==
    BuildReturned =>
        /\ Len(LastDocStages) = Len(FromCalls(calls))
        /\ \A i \in DOMAIN LastDocStages :
               LastDocStages[i].from_directive = FromCalls(calls)[i]
        /\ \A n \in 1..(Len(FromCalls(calls)) - 1) :
               NthFromPosition(calls, n + 1) = NthFromPosition(calls, n) + 1
                   => LastDocStages[n].directives = <<>>

\* C3: in a returned Dockerfile the stage of the i-th from_ call holds exactly
\* the instructions appended after that call and before the next from_ call
\* or build(), in call order.
C3_StageHoldsItsInstructions ==
    BuildReturned => LastDocStages = StagesOfCalls(calls, 1, <<>>, NoStage)

\* C4: every stage of a returned Dockerfile is one leading FROM followed only
\* by instructions that are not FROM.
C4_OneLeadingFrom ==
    \A k \in DOMAIN docs :
        \A i \in DOMAIN Dockerfile_stages(docs[k]) :
            LET st == Dockerfile_stages(docs[k])[i]
            IN  /\ st.from_directive.kind = "From"
                /\ \A j \in DOMAIN st.directives : st.directives[j].kind # "From"

\* A step that is a call of an instruction-appending method.
AppendCall == Len(calls') = Len(calls) + 1 /\ calls'[Len(calls')].op \in AppendOps

\* C5: an instruction-appending call changes only the pending buffer, which
\* grows by one element at its end; the finalized stages, the pending FROM and
\* the elements already in the buffer stay as they were.
C5_AppendChangesOnlyTheBuffer ==
    [][AppendCall =>
          /\ stages' = stages
          /\ current_from' = current_from
          /\ Len(current_directives') = Len(current_directives) + 1
          /\ SubSeq(current_directives', 1, Len(current_directives)) = current_directives
          /\ docs' = docs
          /\ raised' = NoError]_vars

\* C5 witness: an instruction was appended to a buffer that held one already,
\* with a stage finalized and a FROM pending.
C5_Witness ==
    /\ calls # <<>> /\ LastCall.op \in AppendOps
    /\ Len(current_directives) = 2
    /\ stages # <<>> /\ current_from # NoFrom

\* C6: no later call on the builder changes a Dockerfile that build() has
\* returned: its stages, their instructions and its rendering stay the same.
C6_ReturnedDockerfileImmutable ==
    [][\A k \in DOMAIN docs :
          /\ k \in DOMAIN docs'
          /\ StagesIn(docs'[k], stages') = StagesIn(docs[k], stages)
          /\ Dockerfile_render(StagesIn(docs'[k], stages'))
                 = Dockerfile_render(StagesIn(docs[k], stages))]_vars

\* C6 witness: the builder has finalized a stage that a Dockerfile returned
\* earlier does not hold, and has returned a second Dockerfile since.
C6_Witness ==
    /\ Len(docs) = 2
    /\ Len(stages) > Len(Dockerfile_stages(docs[1]))
    /\ Dockerfile_stages(docs[2]) # Dockerfile_stages(docs[1])

(***************************************************************************)
(* sls_dockerfile (_presets.py).  Its keyword arguments are the fields of  *)
(* the record a.                                                           *)
(***************************************************************************)
\* Python truthiness of an Optional[dict]: None and {} are falsy.
TruthyDict(o) == o # None /\ o[1] # <<>>

DictHas(d, k) == \E i \in DOMAIN d : d[i][1] = k

\* A dict.setdefault(k, v) in the place of d[k] = v: an existing key keeps
\* its old value.
DictSet_KeepsOld(d, k, v) == IF DictHas(d, k) THEN d ELSE Append(d, <<k, v>>)

\* d[k] = v: an existing key keeps its place, a new key goes last.
DictSet(d, k, v) ==
    IF DictHas(d, k)
    THEN [i \in DOMAIN d |-> IF d[i][1] = k THEN <<k, v>> ELSE d[i]]
    ELSE Append(d, <<k, v>>)

\* d.update(e)
RECURSIVE DictUpdate(_, _)
DictUpdate(d, e) ==
    IF e = <<>> THEN d ELSE DictUpdate(DictSet(d, e[1][1], e[1][2]), Tail(e))

\* "x or dflt" for an Optional[int] x.
OrDefault(x, dflt) == IF TruthyInt(x) THEN x[1] ELSE dflt

\* A loop over set(expose_ports): a port given twice is exposed once.
RECURSIVE ExposeEach_SkipsRepeated(_, _)
ExposeEach_SkipsRepeated(b, ports) ==
    IF ports = <<>> THEN b
    ELSE IF \E i \in 2..Len(ports) : ports[i] = ports[1]
    THEN ExposeEach_SkipsRepeated(b, Tail(ports))
    ELSE ExposeEach_SkipsRepeated(expose(b, ports[1], None), Tail(ports))

\* for port in expose_ports: b.expose(port)
RECURSIVE ExposeEach(_, _)
ExposeEach(b, ports) ==
    IF ports = <<>> THEN b ELSE ExposeEach(expose(b, ports[1], None), Tail(ports))

MkdirCommand == S("mkdir -p var/data/tmp var/log var/run var/conf var/state")
HookCommand ==
    <<"chmod +x service/bin/entrypoint.sh && ", BS, NL,
      "    mkdir -p hooks/pre-configure.d hooks/configure.d ", BS, NL,
      "    hooks/pre-startup.d hooks/startup.d hooks/post-startup.d ", BS, NL,
      "    hooks/pre-shutdown.d hooks/shutdown.d">>
CheckCommand == S("service/monitoring/bin/check.sh || exit 1")

\* has_health_check = health_check_interval is not None or health_check_timeout is not None
has_health_check(a) == a.health_check_interval # None \/ a.health_check_timeout # None

\* An entrypoint that ignores use_hook_init.
EntrypointArgs_AlwaysInit(use_hook_init) == <<S("service/bin/init.sh"), S("start")>>

\* The arguments of the ENTRYPOINT: entrypoint.sh in hook mode, init.sh start otherwise.
EntrypointArgs(use_hook_init) ==
    IF use_hook_init
    THEN <<S("service/bin/entrypoint.sh")>>
    ELSE <<S("service/bin/init.sh"), S("start")>>

sls_dockerfile(a) ==
    LET wd == a.install_path \o S("/") \o a.dist_name
        fixed == <<<<S("org.opencontainers.image.title"), a.product_name>>,
                   <<S("org.opencontainers.image.version"), a.product_version>>,
                   <<S("org.opencontainers.image.vendor"), a.product_group>>,
                   <<S("com.palantir.sls.product-type"), a.product_type>>>>
        all_labels == IF TruthyDict(a.labels) THEN DictUpdate(fixed, a.labels[1]) ELSE fixed
        b1 == blank(from_(DockerfileBuilder, a.base_image, None, None))
        b2 == blank(label(b1, all_labels))
        b3 == add(b2, a.tarball_name, a.install_path \o S("/"), None)
        b4 == blank(workdir(b3, wd))
        b5 == blank(run(b4, MkdirCommand))
        b6 == IF a.use_hook_init
              THEN blank(run(copy(copy(comment(b5, S("Hook init system")),
                                       S("hooks/entrypoint.sh"),
                                       S("service/bin/entrypoint.sh"), None, None),
                                  S("hooks/hooks.sh"), S("service/lib/hooks.sh"), None, None),
                             HookCommand))
              ELSE b5
        b7 == ExposeEach(b6, a.expose_ports)
        b8 == IF a.expose_ports # <<>> THEN blank(b7) ELSE b7
        b9 == IF has_health_check(a)
              THEN blank(healthcheck(b8, CheckCommand,
                                     OrDefault(a.health_check_interval, 10),
                                     OrDefault(a.health_check_timeout, 5),
                                     OrDefault(a.health_check_start_period, 30),
                                     OrDefault(a.health_check_retries, 3)))
              ELSE b8
        b10 == entrypoint(b9, EntrypointArgs(a.use_hook_init))
    IN  build(blank(b10)).doc

(***************************************************************************)
(* oci_labels (_labels.py)                                                 *)
(***************************************************************************)
\* The well-known annotation keys and the fields they take their values from,
\* in the order of the mapping dict.
OciMapping(a) ==
    <<<<S("org.opencontainers.image.title"), a.title>>,
      <<S("org.opencontainers.image.version"), a.version>>,
      <<S("org.opencontainers.image.vendor"), a.vendor>>,
      <<S("org.opencontainers.image.description"), a.description>>,
      <<S("org.opencontainers.image.url"), a.url>>,
      <<S("org.opencontainers.image.source"), a.source>>,
      <<S("org.opencontainers.image.licenses"), a.licenses>>,
      <<S("org.opencontainers.image.revision"), a.revision>>,
      <<S("org.opencontainers.image.created"), a.created>>>>

\* A loop that tests `if value:` and so leaves out an empty string too.
RECURSIVE OciMapped_SkipsEmpty(_, _)
OciMapped_SkipsEmpty(labels, mapping) ==
    IF mapping = <<>> THEN labels
    ELSE OciMapped_SkipsEmpty(IF TruthyStr(mapping[1][2])
                              THEN DictSet(labels, mapping[1][1], mapping[1][2][1])
                              ELSE labels,
                              Tail(mapping))

\* for key, value in mapping.items(): if value is not None: labels[key] = value
RECURSIVE OciMapped(_, _)
OciMapped(labels, mapping) ==
    IF mapping = <<>> THEN labels
    ELSE OciMapped(IF mapping[1][2] # None
                   THEN DictSet(labels, mapping[1][1], mapping[1][2][1])
                   ELSE labels,
                   Tail(mapping))

\* An oci_labels that merges extra first and the well-known fields last.
oci_labels_ExtraFirst(a) ==
    Label(OciMapped(IF TruthyDict(a.extra) THEN a.extra[1] ELSE <<>>, OciMapping(a)))

oci_labels(a) ==
    LET labels == OciMapped(<<>>, OciMapping(a))
    IN  Label(IF TruthyDict(a.extra) THEN DictUpdate(labels, a.extra[1]) ELSE labels)

(***************************************************************************)
(* DockerignoreConfig (_dockerignore.py)                                   *)
(***************************************************************************)
DockerignoreConfig(ignore_all, allow_patterns, deny_patterns, comment_) ==
    [ignore_all |-> ignore_all, allow_patterns |-> allow_patterns,
     deny_patterns |-> deny_patterns, comment |-> comment_]

\* A render that appends the allow patterns before the blanket ignore.
DockerignoreConfig_render_AllowFirst(c) ==
    LET l1 == IF TruthyStr(c.comment) THEN <<S("# ") \o c.comment[1]>> ELSE <<>>
        l2 == l1 \o c.deny_patterns
        l3 == l2 \o [i \in DOMAIN c.allow_patterns |-> S("!") \o c.allow_patterns[i]]
        l4 == IF c.ignore_all THEN Append(l3, S("**")) ELSE l3
    IN  Join(Append(l4, <<>>), S(NL))

DockerignoreConfig_render(c) ==
    LET l1 == IF TruthyStr(c.comment) THEN <<S("# ") \o c.comment[1]>> ELSE <<>>
        l2 == l1 \o c.deny_patterns
        l3 == IF c.ignore_all THEN Append(l2, S("**")) ELSE l2
        l4 == l3 \o [i \in DOMAIN c.allow_patterns |-> S("!") \o c.allow_patterns[i]]
    IN  Join(Append(l4, <<>>), S(NL))

(***************************************************************************)
(* The pure functions, each applied once to an input drawn from a bounded  *)
(* set: Dockerfile.render, Label.render, sls_dockerfile, oci_labels,        *)
(* User.render, DockerignoreConfig.render, From.render and Stage.render.   *)
(***************************************************************************)
SeqsUpTo(set, n) == UNION {[1..k -> set] : k \in 0..n}

\* Instructions of the stages handed to Dockerfile.render: one that renders
\* to one line, one that renders to the empty string, one that renders to
\* three lines.
RenderDirectives ==
    {Run(S("x")), BlankLine, Label(<<<<S("k1"), S("v1")>>, <<S("k2"), S("v2")>>>>)}
RenderStages ==
    {Stage(From(S("a"), None, None), ds) : ds \in SeqsUpTo(RenderDirectives, MaxDirectives)}
RenderInputs == UNION {[1..k -> RenderStages] : k \in 1..MaxStages}

\* Labels dicts: up to MaxLabels items, the keys pairwise different.
LabelKeys == {S("k1"), S("k2"), S("k3"), S("k4")}
LabelValues == {S("v1"), S("v2")}
LabelInputs ==
    {l \in SeqsUpTo(LabelKeys \X LabelValues, MaxLabels) :
        \A i, j \in DOMAIN l : i # j => l[i][1] # l[j][1]}

OptionalSeconds == {None, Some(0), Some(15)}
SlsInputs ==
    [base_image : {S("python:3.11-slim")},
     product_name : {S("svc")},
     product_version : {S("1.0.0")},
     product_group : {S("com.example")},
     dist_name : {S("svc-1.0.0")},
     tarball_name : {S("svc-1.0.0.sls.tgz")},
     install_path : {S("/opt/services")},
     product_type : {S("helm.v1")},
     health_check_interval : OptionalSeconds,
     health_check_timeout : OptionalSeconds,
     health_check_start_period : OptionalSeconds,
     health_check_retries : OptionalSeconds,
     use_hook_init : BOOLEAN,
     expose_ports : {<<>>, <<8080, 8443>>, <<80, 80>>},
     labels : {None, Some(<<>>), Some(<<<<S("team"), S("platform")>>>>),
               Some(<<<<S("org.opencontainers.image.version"), S("2.0")>>,
                      <<S("team"), S("platform")>>>>)}]

\* The arguments of oci_labels: every field unset or set, the title also set
\* to the empty string; no overlay, an empty one, one that names a well-known
\* key, one that names a key of its own and a well-known key.
OciInputs ==
    [title : {None, Some(<<>>), Some(S("svc"))},
     version : {None, Some(S("1.0.0"))},
     vendor : {None, Some(S("com.example"))},
     description : {None, Some(S("a service"))},
     url : {None, Some(S("https://example.com"))},
     source : {None, Some(S("https://example.com/src"))},
     licenses : {None, Some(S("Apache-2.0"))},
     revision : {None, Some(S("abc123"))},
     created : {None, Some(S("2024-01-01"))},
     extra : {None, Some(<<>>),
              Some(<<<<S("org.opencontainers.image.title"), S("override")>>>>),
              Some(<<<<S("team"), S("platform")>>,
                     <<S("org.opencontainers.image.version"), S("2.0")>>>>)}]

\* Users: no group, the empty group, a group.
UserInputs == {User(S("app"), g) : g \in {None, Some(<<>>), Some(S("staff"))}}

\* Dockerignore configurations: up to MaxPatterns patterns of each sort; no
\* comment, the empty comment, a comment.
DockerignoreInputs ==
    {DockerignoreConfig(ia, al, de, co) :
        ia \in BOOLEAN,
        al \in SeqsUpTo({S("*.sls.tgz"), S("hooks/")}, MaxPatterns),
        de \in SeqsUpTo({S("*.log"), S("tmp/")}, MaxPatterns),
        co \in {None, Some(<<>>), Some(S("only the tarball"))}}

\* Froms: alias and platform each unset, empty or set.
FromInputs ==
    {From(S("python:3.11"), al, pl) :
        al \in {None, Some(<<>>), Some(S("builder"))},
        pl \in {None, Some(<<>>), Some(S("linux/amd64"))}}

\* Stages as the builder makes them: up to MaxDirectives instructions, among
\* them the two whose rendering is the empty string.
StageInputs ==
    {Stage(From(S("a"), None, None), ds) :
        ds \in SeqsUpTo({Run(S("x")), BlankLine, Label(<<>>),
                         Label(<<<<S("k1"), S("v1")>>, <<S("k2"), S("v2")>>>>)},
                        MaxDirectives)}

FnInputs ==
    {[fn |-> "Dockerfile.render", x |-> x] : x \in RenderInputs}
    \cup {[fn |-> "Label.render", x |-> x] : x \in LabelInputs}
    \cup {[fn |-> "sls_dockerfile", x |-> x] : x \in SlsInputs}
    \cup {[fn |-> "oci_labels", x |-> x] : x \in OciInputs}
    \cup {[fn |-> "User.render", x |-> x] : x \in UserInputs}
    \cup {[fn |-> "DockerignoreConfig.render", x |-> x] : x \in DockerignoreInputs}
    \cup {[fn |-> "From.render", x |-> x] : x \in FromInputs}
    \cup {[fn |-> "Stage.render", x |-> x] : x \in StageInputs}

InitFn ==
    /\ stages = DockerfileBuilder.stages
    /\ current_from = DockerfileBuilder.current_from
    /\ current_directives = DockerfileBuilder.current_directives
    /\ calls = <<>>
    /\ docs = <<>>
    /\ raised = NoError
    /\ arg \in FnInputs
    /\ ret = NotCalled

Apply_Dockerfile_render ==
    /\ arg.fn = "Dockerfile.render" /\ ret = NotCalled
    /\ ret' = Some(Dockerfile_render(Dockerfile_stages(Dockerfile(arg.x))))
    /\ UNCHANGED <<builderVars, arg>>

Apply_Label_render ==
    /\ arg.fn = "Label.render" /\ ret = NotCalled
    /\ ret' = Some(render(Label(arg.x)))
    /\ UNCHANGED <<builderVars, arg>>

Apply_sls_dockerfile ==
    /\ arg.fn = "sls_dockerfile" /\ ret = NotCalled
    /\ ret' = Some(sls_dockerfile(arg.x))
    /\ UNCHANGED <<builderVars, arg>>

Apply_oci_labels ==
    /\ arg.fn = "oci_labels" /\ ret = NotCalled
    /\ ret' = Some(oci_labels(arg.x))
    /\ UNCHANGED <<builderVars, arg>>

Apply_User_render ==
    /\ arg.fn = "User.render" /\ ret = NotCalled
    /\ ret' = Some(render(arg.x))
    /\ UNCHANGED <<builderVars, arg>>

Apply_DockerignoreConfig_render ==
    /\ arg.fn = "DockerignoreConfig.render" /\ ret = NotCalled
    /\ ret' = Some(DockerignoreConfig_render(arg.x))
    /\ UNCHANGED <<builderVars, arg>>

Apply_From_render ==
    /\ arg.fn = "From.render" /\ ret = NotCalled
    /\ ret' = Some(render(arg.x))
    /\ UNCHANGED <<builderVars, arg>>

Apply_Stage_render ==
    /\ arg.fn = "Stage.render" /\ ret = NotCalled
    /\ ret' = Some(Stage_render(arg.x))
    /\ UNCHANGED <<builderVars, arg>>

NextFn ==
    \/ Apply_Dockerfile_render
    \/ Apply_Label_render
    \/ Apply_sls_dockerfile
    \/ Apply_oci_labels
    \/ Apply_User_render
    \/ Apply_DockerignoreConfig_render
    \/ Apply_From_render
    \/ Apply_Stage_render

SpecFn == InitFn /\ [][NextFn]_vars

Rendered(fn) == arg.fn = fn /\ ret # NotCalled

(***************************************************************************)
(* Claims about rendering and the preset                                   *)
(***************************************************************************)
\* The number of lines of a text.
LineCount(t) == Count(t, NL) + 1

RECURSIVE SumOf(_)
SumOf(ns) == IF ns = <<>> THEN 0 ELSE ns[1] + SumOf(Tail(ns))

\* What Dockerfile.render does keep: the text ends with a newline.
RenderEndsWithNewline ==
    Rendered("Dockerfile.render") => EndsWithNL(ret[1])

\* C7: the text Dockerfile.render returns ends with exactly one newline: it
\* ends with a newline and not with two, whatever the last stage renders to.
C7_ExactlyOneTrailingNewline ==
    Rendered("Dockerfile.render") =>
        LET t == ret[1]
        IN  /\ EndsWithNL(t)
            /\ ~(Len(t) >= 2 /\ t[Len(t) - 1] = NL)

\* C8: the text of a Dockerfile of K stages is the stages' renderings with
\* exactly one empty line between two consecutive ones and none before the
\* first or after the last: before the trailing-newline test its line count is
\* the sum of the stages' line counts plus K - 1.
C8_OneBlankLineBetweenStages ==
    Rendered("Dockerfile.render") =>
        LET stgs == arg.x
            K == Len(stgs)
            texts == [i \in 1..K |-> Stage_render(stgs[i])]
            separated == Join(texts, <<NL, NL>>)
            joined == Dockerfile_joined(stgs)
        IN  /\ joined = separated
            /\ LineCount(joined) = SumOf([i \in 1..K |-> LineCount(texts[i])]) + (K - 1)
            /\ ret[1] = IF EndsWithNL(separated) THEN separated ELSE separated \o S(NL)

\* C8 witness: a Dockerfile of two stages was rendered, the first stage ending
\* with a blank line, the second holding an instruction of several lines.
C8_Witness ==
    /\ Rendered("Dockerfile.render")
    /\ Len(arg.x) = 2
    /\ Len(arg.x[1].directives) = 2 /\ arg.x[1].directives[2] = BlankLine
    /\ \E j \in DOMAIN arg.x[2].directives : LineCount(render(arg.x[2].directives[j])) = 3

\* The keys of a rendered LABEL, in the order they appear in the text.
KeysIn(t) == SelectSeq(t, LAMBDA tok : S(tok) \in LabelKeys)

KeysOf(l) == [i \in DOMAIN l |-> l[i][1][1]]

\* C9: Label.render gives the empty string for no entries, LABEL k="v" for
\* one, and for N >= 2 the multi-line form with exactly N - 1 continuation
\* markers and all N keys, each once, in insertion order.
C9_LabelRenderNMinusOneMarkers ==
    Rendered("Label.render") =>
        LET l == arg.x
            N == Len(l)
            t == ret[1]
        IN  /\ N = 0 => t = <<>>
            /\ N = 1 => t = S("LABEL ") \o l[1][1] \o S("=\"") \o l[1][2] \o S("\"")
            /\ N >= 2 => /\ LineCount(t) = N + 1
                         /\ Count(t, BS) = N - 1
                         /\ KeysIn(t) = KeysOf(l)

\* The lines of a text: the runs of tokens between its newlines.
RECURSIVE LinesOf(_, _)
LinesOf(t, cur) ==
    IF t = <<>> THEN <<cur>>
    ELSE IF t[1] = NL THEN <<cur>> \o LinesOf(Tail(t), <<>>)
    ELSE LinesOf(Tail(t), Append(cur, t[1]))

\* C9 (amended): Label.render gives the empty string for no entries, LABEL
\* k="v" for one, and for N >= 2 the multi-line form holds exactly N
\* continuation markers, one ending the LABEL line and one ending every entry
\* line but the last.
C9_LabelRenderNMarkers ==
    Rendered("Label.render") =>
        LET l == arg.x
            N == Len(l)
            t == ret[1]
            ls == LinesOf(t, <<>>)
        IN  /\ N = 0 => t = <<>>
            /\ N = 1 => t = S("LABEL ") \o l[1][1] \o S("=\"") \o l[1][2] \o S("\"")
            /\ N >= 2 => /\ Len(ls) = N + 1
                         /\ ls[1] = <<"LABEL ", BS>>
                         /\ \A i \in 2..N : ls[i][Len(ls[i])] = BS
                         /\ ls[N + 1][Len(ls[N + 1])] # BS
                         /\ Count(t, BS) = N
                         /\ KeysIn(t) = KeysOf(l)

\* C9 witness: a dict of three entries was rendered.
C9_Witness == Rendered("Label.render") /\ Len(arg.x) = 3

\* Some health-check parameter of the preset is configured.
AnyHealthCheckParameter(a) ==
    \/ a.health_check_interval # None
    \/ a.health_check_timeout # None
    \/ a.health_check_start_period # None
    \/ a.health_check_retries # None

\* C10: sls_dockerfile emits exactly one HEALTHCHECK, followed by a blank, if
\* any of interval, timeout, start period and retries is configured, and no
\* HEALTHCHECK if none is.
C10_HealthCheckIffAnyParameter ==
    Rendered("sls_dockerfile") =>
        LET ds == Dockerfile_stages(ret[1])[1].directives
            hc == {i \in DOMAIN ds : ds[i].kind = "HealthCheck"}
        IN  IF AnyHealthCheckParameter(arg.x)
            THEN /\ Cardinality(hc) = 1
                 /\ \A i \in hc : i < Len(ds) /\ ds[i + 1] = BlankLine
            ELSE hc = {}

\* The instructions of the one stage sls_dockerfile returned.
SlsDirectives == Dockerfile_stages(ret[1])[1].directives

\* The text of the Dockerfile sls_dockerfile returned.
SlsText == Dockerfile_render(Dockerfile_stages(ret[1]))

\* The value the claims expect for a health-check parameter: the configured
\* value when there is one, the default otherwise.
ConfiguredOr(x, dflt) == IF x # None THEN x[1] ELSE dflt

\* C11: a HEALTHCHECK that sls_dockerfile emits renders interval, timeout,
\* start period and retries each with exactly the configured integer, 0
\* included, and with the default 10s, 5s, 30s, 3 where none is configured.
C11_HealthCheckValuesAsConfigured ==
    Rendered("sls_dockerfile") =>
        \A i \in DOMAIN SlsDirectives :
            SlsDirectives[i].kind = "HealthCheck" =>
                LET a == arg.x
                    hc == SlsDirectives[i]
                    interval == ConfiguredOr(a.health_check_interval, 10)
                    timeout == ConfiguredOr(a.health_check_timeout, 5)
                    start == ConfiguredOr(a.health_check_start_period, 30)
                    retries == ConfiguredOr(a.health_check_retries, 3)
                IN  /\ hc.interval_seconds = interval
                    /\ hc.timeout_seconds = timeout
                    /\ hc.start_period_seconds = start
                    /\ hc.retries = retries
                    /\ render(hc) =
                         <<"HEALTHCHECK", " --interval=">> \o IntStr(interval)
                         \o <<"s ", "--timeout=">> \o IntStr(timeout)
                         \o <<"s ", "--start-period=">> \o IntStr(start)
                         \o <<"s ", "--retries=">> \o IntStr(retries)
                         \o <<" ", BS, NL, "  CMD ">> \o hc.command

\* What C11 still gets of the code: every parameter configured with a value
\* other than 0 is rendered as configured, every other one with its default.
HealthCheckValuesUnlessZero ==
    Rendered("sls_dockerfile") =>
        \A i \in DOMAIN SlsDirectives :
            SlsDirectives[i].kind = "HealthCheck" =>
                LET a == arg.x
                    hc == SlsDirectives[i]
                    Want(x, dflt) == IF x # None /\ x[1] # 0 THEN x[1] ELSE dflt
                IN  /\ hc.interval_seconds = Want(a.health_check_interval, 10)
                    /\ hc.timeout_seconds = Want(a.health_check_timeout, 5)
                    /\ hc.start_period_seconds = Want(a.health_check_start_period, 30)
                    /\ hc.retries = Want(a.health_check_retries, 3)

\* The kinds of the instructions of the recipe, after the FROM, for the
\* preset arguments a; hc tells whether the health-check block is in it.
RecipeKinds(a, hc) ==
    <<"BlankLine", "Label", "BlankLine", "Add", "Workdir", "BlankLine", "Run", "BlankLine">>
    \o (IF a.use_hook_init
        THEN <<"Comment", "Copy", "Copy", "Run", "BlankLine">> ELSE <<>>)
    \o [i \in 1..Len(a.expose_ports) |-> "Expose"]
    \o (IF a.expose_ports # <<>> THEN <<"BlankLine">> ELSE <<>>)
    \o (IF hc THEN <<"HealthCheck", "BlankLine">> ELSE <<>>)
    \o <<"Entrypoint", "BlankLine">>

\* The Dockerfile sls_dockerfile returned follows the recipe, with the
\* health-check block in it exactly if hc.
FollowsRecipe(hc) ==
    LET a == arg.x
        stgs == Dockerfile_stages(ret[1])
        ds == SlsDirectives
        kinds == [i \in DOMAIN ds |-> ds[i].kind]
    IN  /\ Len(stgs) = 1
        /\ stgs[1].from_directive = From(a.base_image, None, None)
        /\ kinds = RecipeKinds(a, hc)
        /\ ds[4] = Add(a.tarball_name, a.install_path \o S("/"), None)
        /\ ds[5] = Workdir(a.install_path \o S("/") \o a.dist_name)
        /\ ds[7] = Run(S("mkdir -p var/data/tmp var/log var/run var/conf var/state"))
        /\ (~a.use_hook_init /\ a.expose_ports = <<>> /\ ~hc) =>
               kinds = <<"BlankLine", "Label", "BlankLine", "Add", "Workdir",
                         "BlankLine", "Run", "BlankLine", "Entrypoint", "BlankLine">>
        /\ \E i \in DOMAIN ds :
               /\ ds[i].kind = "Entrypoint"
               /\ \A j \in (i + 1)..Len(ds) : ds[j] = BlankLine
        /\ SubSeq(SlsText, 1, 2 + Len(a.base_image) + 1)
               = <<"FROM", " ">> \o a.base_image \o S(NL)

\* C12: the instructions of sls_dockerfile are the fixed recipe: one stage,
\* FROM the base image, then blank, LABEL, blank, ADD, WORKDIR, blank, RUN
\* mkdir, blank, the hook block exactly in hook mode, the EXPOSE lines exactly
\* if there are ports, the HEALTHCHECK exactly if a health-check parameter is
\* configured, ENTRYPOINT, blank; ENTRYPOINT is the last instruction that is
\* not a blank and the text starts with the line FROM <base-image>.
C12_FixedRecipe ==
    Rendered("sls_dockerfile") => FollowsRecipe(AnyHealthCheckParameter(arg.x))

\* What C12 still gets of the code: the recipe with the health-check block in
\* it exactly if the interval or the timeout is configured.
RecipeWithIntervalOrTimeout ==
    Rendered("sls_dockerfile") =>
        FollowsRecipe(arg.x.health_check_interval # None
                      \/ arg.x.health_check_timeout # None)

\* The tokens that name the hook scripts.
HookTokens ==
    {"hooks/entrypoint.sh", "service/bin/entrypoint.sh", "hooks/hooks.sh",
     "service/lib/hooks.sh", "chmod +x service/bin/entrypoint.sh && "}

\* The text t holds the token tok.
Mentions(t, tok) == \E i \in DOMAIN t : t[i] = tok

\* The text t has the line l.
HasLine(t, l) ==
    \E p \in DOMAIN t :
        LET q == p + Len(l) - 1
        IN  /\ q <= Len(t)
            /\ SubSeq(t, p, q) = l
            /\ p = 1 \/ t[p - 1] = NL
            /\ q = Len(t) \/ t[q + 1] = NL

\* C13: in hook mode sls_dockerfile emits the comment, the two hook COPY
\* instructions and the chmod/mkdir RUN, its one entrypoint is
\* ENTRYPOINT ["service/bin/entrypoint.sh"] and init.sh is nowhere in the
\* text; out of hook mode its one entrypoint is
\* ENTRYPOINT ["service/bin/init.sh", "start"] and no instruction names
\* entrypoint.sh or hooks.sh; whatever the other arguments are.
C13_HookMode ==
    Rendered("sls_dockerfile") =>
        LET a == arg.x
            ds == SlsDirectives
            entrypoints == {i \in DOMAIN ds : ds[i].kind = "Entrypoint"}
        IN  /\ Cardinality(entrypoints) = 1
            /\ IF a.use_hook_init
               THEN /\ \E i \in DOMAIN ds :
                         /\ i + 3 <= Len(ds)
                         /\ ds[i] = Comment(S("Hook init system"))
                         /\ ds[i + 1] = Copy(S("hooks/entrypoint.sh"),
                                             S("service/bin/entrypoint.sh"), None, None)
                         /\ ds[i + 2] = Copy(S("hooks/hooks.sh"),
                                             S("service/lib/hooks.sh"), None, None)
                         /\ ds[i + 3].kind = "Run"
                         /\ ds[i + 3].command[1] = "chmod +x service/bin/entrypoint.sh && "
                         /\ \E j \in DOMAIN ds[i + 3].command :
                                ds[i + 3].command[j]
                                    = "    mkdir -p hooks/pre-configure.d hooks/configure.d "
                    /\ HasLine(SlsText, <<"# ", "Hook init system">>)
                    /\ HasLine(SlsText, <<"COPY", " ", "hooks/entrypoint.sh", " ",
                                          "service/bin/entrypoint.sh">>)
                    /\ HasLine(SlsText, <<"COPY", " ", "hooks/hooks.sh", " ",
                                          "service/lib/hooks.sh">>)
                    /\ HasLine(SlsText, <<"ENTRYPOINT [", "\"", "service/bin/entrypoint.sh",
                                          "\"", "]">>)
                    /\ ~Mentions(SlsText, "service/bin/init.sh")
               ELSE /\ HasLine(SlsText, <<"ENTRYPOINT [", "\"", "service/bin/init.sh", "\"",
                                          ", ", "\"", "start", "\"", "]">>)
                    /\ \A tok \in HookTokens : ~Mentions(SlsText, tok)
                    /\ \A i \in DOMAIN ds : ds[i].kind \notin {"Comment", "Copy"}

\* sls_dockerfile has returned in hook mode, with ports and a health check.
C13_Witness ==
    /\ Rendered("sls_dockerfile")
    /\ arg.x.use_hook_init
    /\ arg.x.expose_ports # <<>>
    /\ \E i \in DOMAIN SlsDirectives : SlsDirectives[i].kind = "HealthCheck"
    /\ Mentions(SlsText, "service/bin/entrypoint.sh")

\* C14: for the ports p1..pn given to sls_dockerfile the stage holds
\* EXPOSE p1, ..., EXPOSE pn, consecutive and in that order, a port given
\* twice exposed twice, and no other EXPOSE, followed by exactly one blank;
\* with no ports it holds no EXPOSE and no blank for the port section.
C14_OneExposePerPort ==
    Rendered("sls_dockerfile") =>
        LET a == arg.x
            ports == a.expose_ports
            n == Len(ports)
            ds == SlsDirectives
            exposes == {i \in DOMAIN ds : ds[i].kind = "Expose"}
            blanks == Cardinality({i \in DOMAIN ds : ds[i] = BlankLine})
            sections == (IF a.use_hook_init THEN 1 ELSE 0)
                        + (IF \E i \in DOMAIN ds : ds[i].kind = "HealthCheck" THEN 1 ELSE 0)
        IN  IF n = 0
            THEN exposes = {} /\ blanks = 5 + sections
            ELSE /\ \E s \in DOMAIN ds :
                        /\ s + n + 2 <= Len(ds)
                        /\ exposes = (s + 1)..(s + n)
                        /\ \A i \in 1..n : ds[s + i] = Expose(ports[i], None)
                        /\ ds[s + n + 1] = BlankLine
                        /\ ds[s + n + 2] # BlankLine
                 /\ blanks = 6 + sections
                 /\ \A i \in 1..n : HasLine(SlsText, S("EXPOSE ") \o IntStr(ports[i]))
                 /\ Count(SlsText, "EXPOSE ") = n

\* sls_dockerfile has returned for a port given twice.
C14_Witness ==
    /\ Rendered("sls_dockerfile")
    /\ Len(arg.x.expose_ports) = 2
    /\ arg.x.expose_ports[1] = arg.x.expose_ports[2]
    /\ Count(SlsText, "EXPOSE ") = 2

\* The positions of the text t where the key k of a label starts.
KeyPositions(t, k) ==
    {p \in DOMAIN t : /\ p + Len(k) <= Len(t)
                      /\ SubSeq(t, p, p + Len(k)) = k \o S("=\"")}

\* The text t gives the label key k the value v: k="v".
ShowsLabel(t, k, v) ==
    \E p \in KeyPositions(t, k) :
        LET q == p + Len(k) + 1
        IN  /\ q + Len(v) <= Len(t)
            /\ SubSeq(t, q, q + Len(v)) = v \o S("\"")

\* C15: the LABEL of sls_dockerfile holds title = product name, version =
\* product version, vendor = product group and the product-type key =
\* product type, overlaid with the extra labels: every extra key, one of the
\* four fixed keys included, is rendered with the extra value, every fixed key
\* with no extra label with its product value, and every key exactly once.
C15_LabelsOverlaid ==
    Rendered("sls_dockerfile") =>
        LET a == arg.x
            extra == IF a.labels = None THEN <<>> ELSE a.labels[1]
            fixed == <<<<S("org.opencontainers.image.title"), a.product_name>>,
                       <<S("org.opencontainers.image.version"), a.product_version>>,
                       <<S("org.opencontainers.image.vendor"), a.product_group>>,
                       <<S("com.palantir.sls.product-type"), a.product_type>>>>
            Overlaid(k) == \E i \in DOMAIN extra : extra[i][1] = k
            keys == {fixed[i][1] : i \in DOMAIN fixed} \cup {extra[i][1] : i \in DOMAIN extra}
            ds == SlsDirectives
            labels == {i \in DOMAIN ds : ds[i].kind = "Label"}
        IN  /\ labels = {2}
            /\ \A i \in DOMAIN extra :
                   /\ \E j \in DOMAIN ds[2].labels : ds[2].labels[j] = extra[i]
                   /\ ShowsLabel(SlsText, extra[i][1], extra[i][2])
            /\ \A i \in DOMAIN fixed :
                   ~Overlaid(fixed[i][1]) =>
                       /\ \E j \in DOMAIN ds[2].labels : ds[2].labels[j] = fixed[i]
                       /\ ShowsLabel(SlsText, fixed[i][1], fixed[i][2])
            /\ Len(ds[2].labels) = Cardinality(keys)
            /\ \A k \in keys : Cardinality(KeyPositions(SlsText, k)) = 1

\* sls_dockerfile has returned for extra labels that overlay the version key
\* and add a key of their own.
C15_Witness ==
    /\ Rendered("sls_dockerfile")
    /\ arg.x.labels # None
    /\ \E i, j \in DOMAIN arg.x.labels[1] :
           /\ arg.x.labels[1][i][1] = S("org.opencontainers.image.version")
           /\ arg.x.labels[1][i][2] # arg.x.product_version
           /\ arg.x.labels[1][j][1] = S("team")
    /\ ShowsLabel(SlsText, S("org.opencontainers.image.version"), S("2.0"))

\* The overlay handed to oci_labels, {} when there is none.
OciExtra == IF arg.x.extra = None THEN <<>> ELSE arg.x.extra[1]

\* The keys of a dict are pairwise different.
KeysDistinct(d) == \A i, j \in DOMAIN d : d[i][1] = d[j][1] => i = j

\* C16: in the Label oci_labels returns every key of the overlay maps to the
\* overlay's value, also when it is a well-known key that a metadata field
\* has set: the overlay wins.
C16_OverlayWins ==
    Rendered("oci_labels") =>
        LET labels == ret[1].labels
        IN  /\ KeysDistinct(labels)
            /\ \A i \in DOMAIN OciExtra :
                   \E j \in DOMAIN labels : labels[j] = OciExtra[i]

\* oci_labels has returned for an overlay that names a well-known key whose
\* metadata field is set to another value.
C16_Witness ==
    /\ Rendered("oci_labels")
    /\ arg.x.title = Some(S("svc"))
    /\ \E i \in DOMAIN OciExtra :
           /\ OciExtra[i] = <<S("org.opencontainers.image.title"), S("override")>>
           /\ \E j \in DOMAIN ret[1].labels : ret[1].labels[j] = OciExtra[i]

\* The well-known entries of the fields that are set, in the fixed order.
RECURSIVE SetFields(_)
SetFields(pairs) ==
    IF pairs = <<>> THEN <<>>
    ELSE (IF pairs[1][2] # None THEN <<<<pairs[1][1], pairs[1][2][1]>>>> ELSE <<>>)
         \o SetFields(Tail(pairs))

\* C17: without an overlay the Label oci_labels returns holds the well-known
\* key of a field exactly if the field is not None, with the field's value,
\* the keys in the order title, version, vendor, description, url, source,
\* licenses, revision, created: as many entries as fields are set.
C17_SetFieldsOnly ==
    (Rendered("oci_labels") /\ OciExtra = <<>>) =>
        LET a == arg.x
            fields == <<<<"title", a.title>>, <<"version", a.version>>,
                        <<"vendor", a.vendor>>, <<"description", a.description>>,
                        <<"url", a.url>>, <<"source", a.source>>,
                        <<"licenses", a.licenses>>, <<"revision", a.revision>>,
                        <<"created", a.created>>>>
            wanted == SetFields([i \in DOMAIN fields |->
                                    <<<<"org.opencontainers.image." \o fields[i][1]>>,
                                      fields[i][2]>>])
            nset == Cardinality({i \in DOMAIN fields : fields[i][2] # None})
        IN  /\ ret[1] = Label(wanted)
            /\ Len(ret[1].labels) = nset

\* oci_labels has returned for all nine fields set, the title to the empty
\* string, and no overlay.
C17_Witness ==
    /\ Rendered("oci_labels")
    /\ arg.x.extra = None
    /\ arg.x.title = Some(<<>>)
    /\ Len(ret[1].labels) = 9

\* C18: USER tells an empty group from no group: User(user, "") does not
\* render to the text of User(user).
C18_EmptyGroupRendersDifferently ==
    (Rendered("User.render") /\ arg.x.group = Some(<<>>)) =>
        ret[1] # S("USER ") \o arg.x.user

\* What USER does tell apart: a group that is not empty from no group.
GroupRendersDifferently ==
    (Rendered("User.render") /\ TruthyStr(arg.x.group)) =>
        ret[1] = S("USER ") \o arg.x.user \o S(":") \o arg.x.group[1]

\* C19: the lines of DockerignoreConfig.render are the comment line "# ..."
\* if there is one, then the deny patterns as given, then "**" exactly if
\* ignore_all, then the allow patterns as "!pattern" as given: no deny pattern
\* after the "**", no allow pattern before it.
C19_DockerignoreLineOrder ==
    Rendered("DockerignoreConfig.render") =>
        LET c == arg.x
            lines == LinesOf(ret[1], <<>>)
            body == SubSeq(lines, 1, Len(lines) - 1)
            rest == c.deny_patterns
                    \o (IF c.ignore_all THEN <<S("**")>> ELSE <<>>)
                    \o [i \in DOMAIN c.allow_patterns |-> S("!") \o c.allow_patterns[i]]
            star == {i \in DOMAIN body : body[i] = S("**")}
        IN  /\ lines[Len(lines)] = <<>>
            /\ IF c.comment = None THEN body = rest
               ELSE IF c.comment[1] # <<>> THEN body = <<S("# ") \o c.comment[1]>> \o rest
               ELSE body = rest \/ body = <<S("# ")>> \o rest
            /\ Cardinality(star) = IF c.ignore_all THEN 1 ELSE 0
            /\ \A i \in DOMAIN body : \A s \in star :
                   /\ (\E j \in DOMAIN c.deny_patterns : body[i] = c.deny_patterns[j]) => i < s
                   /\ (body[i] # <<>> /\ body[i][1] = "!") => i > s

\* DockerignoreConfig.render has returned for a comment, two deny patterns,
\* the blanket ignore and two allow patterns.
C19_Witness ==
    /\ Rendered("DockerignoreConfig.render")
    /\ TruthyStr(arg.x.comment)
    /\ arg.x.ignore_all
    /\ Len(arg.x.deny_patterns) = 2
    /\ Len(arg.x.allow_patterns) = 2
    /\ Len(LinesOf(ret[1], <<>>)) = 7

\* C20: the text DockerignoreConfig.render returns ends with a newline, for
\* every configuration, the one with ignore_all unset, no patterns and no
\* comment included.
C20_DockerignoreEndsWithNewline ==
    Rendered("DockerignoreConfig.render") => EndsWithNL(ret[1])

\* What DockerignoreConfig.render does keep: the text ends with a newline as
\* soon as it has a line, and is empty otherwise.
DockerignoreEndsWithNewlineUnlessEmpty ==
    Rendered("DockerignoreConfig.render") =>
        LET c == arg.x
        IN  IF TruthyStr(c.comment) \/ c.ignore_all
               \/ c.deny_patterns # <<>> \/ c.allow_patterns # <<>>
            THEN EndsWithNL(ret[1])
            ELSE ret[1] = <<>>

\* C21: From.render gives FROM [--platform=<p>] <image> [AS <alias>]: the
\* platform flag, if there is a platform, right after FROM and before the
\* image, the AS suffix last and only if there is an alias, and FROM <image>
\* with neither.
C21_FromShape ==
    Rendered("From.render") =>
        LET d == arg.x
            flags == IF d.platform = None THEN {<<>>}
                     ELSE IF d.platform[1] # <<>>
                     THEN {<<" ", "--platform=">> \o d.platform[1]}
                     ELSE {<<>>, <<" ", "--platform=">>}
            suffixes == IF d.alias = None THEN {<<>>}
                        ELSE IF d.alias[1] # <<>>
                        THEN {<<" ", "AS ">> \o d.alias[1]}
                        ELSE {<<>>, <<" ", "AS ">>}
        IN  /\ \E f \in flags, x \in suffixes :
                   ret[1] = S("FROM") \o f \o S(" ") \o d.image \o x
            /\ (d.platform = None /\ d.alias = None) =>
                   ret[1] = <<"FROM", " ">> \o d.image
            /\ d.alias = None => ~Mentions(ret[1], "AS ")

\* From.render has returned for a From with a platform and an alias.
C21_Witness ==
    /\ Rendered("From.render")
    /\ TruthyStr(arg.x.platform) /\ TruthyStr(arg.x.alias)
    /\ Mentions(ret[1], "--platform=") /\ Mentions(ret[1], "AS ")

\* The alias the n-th from_ call was given.
AliasGiven(n) == calls[NthFromPosition(calls, n)].arg.alias

\* C22: the alias accessor of the stage that the n-th from_ call started
\* returns the alias that call was given, none if it was given none, in the
\* builder's list of stages and in every Dockerfile build() returns, whatever
\* was appended to the stage and whatever aliases the other stages have.
C22_AliasAsGiven ==
    /\ \A n \in DOMAIN stages : Stage_alias(stages[n]) = AliasGiven(n)
    /\ BuildReturned =>
           \A n \in DOMAIN LastDocStages : Stage_alias(LastDocStages[n]) = AliasGiven(n)

\* build() has returned two stages, the first with an alias and an
\* instruction, the second with no alias.
C22_Witness ==
    /\ BuildReturned
    /\ Len(LastDocStages) = 2
    /\ Stage_alias(LastDocStages[1]) = Some(S("s"))
    /\ LastDocStages[1].directives # <<>>
    /\ Stage_alias(LastDocStages[2]) = None

\* build() is called right after a build() that returned a Dockerfile.
RepeatedBuild ==
    /\ BuildReturned
    /\ calls' = Append(calls, [op |-> "build", arg |-> NoFrom])

\* The last four calls were build(), build(), from_(...), build(), the first
\* of them made after a from_ call and so successful.
FromAfterRepeatedBuild ==
    LET n == Len(calls)
    IN  /\ n >= 5
        /\ calls[n - 3].op = "build" /\ calls[n - 2].op = "build"
        /\ calls[n - 1].op = "from_" /\ calls[n].op = "build"
        /\ FromCalls(SubSeq(calls, 1, n - 4)) # <<>>

\* The repeated build() succeeds and returns a Dockerfile equal to the one
\* before, and leaves the list of finalized stages as it was.
RepeatedBuildReturnsTheSame ==
    /\ raised' = NoError
    /\ Len(docs') = Len(docs) + 1
    /\ StagesIn(docs'[Len(docs')], stages') = LastDocStages
    /\ stages' = stages

\* A from_ and a build() after the repeated build() return the earlier
\* stages plus the new one.
FromAfterRepeatedBuildAddsStage ==
    FromAfterRepeatedBuild =>
        /\ raised = NoError
        /\ Len(docs) >= 2
        /\ LastDocStages = Dockerfile_stages(docs[Len(docs) - 1])
                           \o <<Stage(calls[Len(calls) - 1].arg, <<>>)>>

\* C23: build() called again right after a successful build() succeeds and
\* returns a Dockerfile equal to the first, and the builder then holds no
\* pending FROM and an empty pending buffer, its finalized stages unchanged;
\* a from_ and a build() after that return the earlier stages plus the new
\* one.
C23_BuildRepeatable ==
    /\ [][RepeatedBuild =>
            /\ RepeatedBuildReturnsTheSame
            /\ current_from' = NoFrom
            /\ current_directives' = <<>>]_vars
    /\ []FromAfterRepeatedBuildAddsStage

\* What C23 still gets of the code: all of it but the empty pending buffer.
BuildRepeatableButBuffer ==
    /\ [][RepeatedBuild =>
            /\ RepeatedBuildReturnsTheSame
            /\ current_from' = NoFrom]_vars
    /\ []FromAfterRepeatedBuildAddsStage

\* The instructions of the stage handed to Stage.render whose rendering is
\* the empty string.
EmptyRenderings == {i \in DOMAIN arg.x.directives : render(arg.x.directives[i]) = <<>>}

\* C24: Stage.render leaves out no instruction: the text is the FROM
\* rendering and the rendering of every instruction, 1 + len(directives)
\* segments in the given order joined by newlines, so that an instruction
\* that renders to the empty string, a BlankLine or a Label of no entries,
\* gives one empty line.
C24_NoInstructionSuppressed ==
    Rendered("Stage.render") =>
        LET s == arg.x
            n == Len(s.directives)
            segments == [i \in 1..(1 + n) |->
                            IF i = 1 THEN render(s.from_directive)
                            ELSE render(s.directives[i - 1])]
            lines == LinesOf(ret[1], <<>>)
        IN  /\ ret[1] = Join(segments, S(NL))
            /\ Len(lines) = SumOf([i \in 1..(1 + n) |-> LineCount(segments[i])])
            /\ Cardinality({i \in DOMAIN lines : lines[i] = <<>>})
                   = Cardinality(EmptyRenderings)

\* Stage.render has returned for a stage that holds a BlankLine and a Label
\* of no entries.
C24_Witness ==
    /\ Rendered("Stage.render")
    /\ \E i, j \in DOMAIN arg.x.directives :
           arg.x.directives[i] = BlankLine /\ arg.x.directives[j] = Label(<<>>)
    /\ Count(ret[1], NL) = 2

====
